---- MODULE Spec2Model ----
(***************************************************************************)
(* Greenhouse dashboard (reddashi/SbD): the Electron host process keeps    *)
(* the latest telemetry line of the spawned collector in `latestData`,     *)
(* serves it to the display script over IPC, and relays override commands  *)
(* of the display script to the collector's stdin.                         *)
(*                                                                         *)
(* Text is modelled as a sequence of characters.  JSON text is abbreviated:*)
(* the characters "a", "b" and "p" stand for the member lists of three     *)
(* objects (two full snapshots and one object with only "sensors"), "7" is *)
(* a number literal, " " is white space and "\n" the line terminator.      *)
(***************************************************************************)
EXTENDS Integers, Sequences, FiniteSets, TLC

(***************************************************************************)
(* Bounds                                                                  *)
(***************************************************************************)
\* lines the collector has printed that one 'data' callback can span
MaxLines == 2
\* snapshot lines in one 'data' callback while update() is polling
MaxBatch == 2
\* requests of the display script not yet consumed by the collector
MaxPending == 2

(***************************************************************************)
(* JavaScript values                                                       *)
(***************************************************************************)
Num(n) == [k |-> "number", n |-> n]
Str(n) == [k |-> "string", n |-> n]
NaN == [k |-> "NaN", n |-> 0]
Null == [k |-> "null", n |-> 0]
Undefined == [k |-> "undefined", n |-> 0]

\* the object literal {}
EmptyObj == [m \in {} |-> Undefined]
\* the JSON number 7 (a primitive: every property of it is undefined)
JNum == [jsonNumber |-> Num(7)]

\* obj.key
Get(obj, key) == IF key \in DOMAIN obj THEN obj[key] ELSE Undefined

Sensors == {"temperature", "moisture", "light", "co2"}

ActuatorsOf(m) ==
  [heater_pct |-> Num(IF m = "a" THEN 0 ELSE 60),
   cooler_pct |-> Num(IF m = "a" THEN 30 ELSE 0),
   pump_pct |-> Num(0), drain_pct |-> Num(0),
   lamp_pct |-> Str(IF m = "a" THEN 1 ELSE 2), shutter_pct |-> Num(0),
   co2_pump_pct |-> Num(0), co2_vent_pct |-> Num(100)]

SensorsOf(m) ==
  IF m = "a"
  THEN [temperature |-> Num(21), moisture |-> Num(40), light |-> Num(300),
        co2 |-> Num(450), timestamp |-> Str(1)]
  ELSE [temperature |-> Num(35), moisture |-> Num(41), light |-> Num(0),
        co2 |-> Num(900), timestamp |-> Str(2)]

AlertsOf(m) ==
  IF m = "a" THEN EmptyObj
  ELSE [temperature |-> [value |-> Num(35), status |-> Str(3)]]

\* the object a member list denotes
Members(m) ==
  IF m = "p" THEN [sensors |-> SensorsOf("a")]
  ELSE [sensors |-> SensorsOf(m), actuators |-> ActuatorsOf(m),
        alerts |-> AlertsOf(m)]

\* a value of the Snapshot shape of the wire format
IsSnapshot(v) == {"sensors", "actuators", "alerts"} \subseteq DOMAIN v

(***************************************************************************)
(* Text                                                                    *)
(***************************************************************************)
NL == "\n"
MemberLists == {"a", "b", "p"}

\* text of the line the collector prints for a member list
LineOf(m) == <<"{", m, "}">>

\* String.prototype.split('\n'): the pieces between the separators
RECURSIVE SplitFrom(_, _, _)
SplitFrom(s, i, cur) ==
  IF i > Len(s) THEN <<cur>>
  ELSE IF s[i] = NL THEN <<cur>> \o SplitFrom(s, i + 1, <<>>)
  ELSE SplitFrom(s, i + 1, Append(cur, s[i]))

Split(s) == SplitFrom(s, 1, <<>>)

RECURSIVE TrimStart(_)
TrimStart(s) ==
  IF s # <<>> /\ Head(s) = " " THEN TrimStart(Tail(s)) ELSE s

RECURSIVE TrimEnd(_)
TrimEnd(s) ==
  IF s # <<>> /\ s[Len(s)] = " " THEN TrimEnd(SubSeq(s, 1, Len(s) - 1)) ELSE s

\* String.prototype.trim
Trim(s) == TrimEnd(TrimStart(s))

\* JSON.parse: white space around the value is allowed; anything that is
\* not one complete value is a SyntaxError (ok = FALSE)
JSONparse(s) ==
  LET t == Trim(s) IN
  IF t = <<"{", "}">> THEN [ok |-> TRUE, value |-> EmptyObj]
  ELSE IF Len(t) = 3 /\ t[1] = "{" /\ t[2] \in MemberLists /\ t[3] = "}"
  THEN [ok |-> TRUE, value |-> Members(t[2])]
  ELSE IF t = <<"7">> THEN [ok |-> TRUE, value |-> JNum]
  ELSE [ok |-> FALSE, value |-> EmptyObj]

(***************************************************************************)
(* Host process: py.stdout.on('data')                                      *)
(***************************************************************************)
\* ParseLines with the stored value cleared when a line fails to parse
RECURSIVE ParseLinesResetOnError(_, _, _)
ParseLinesResetOnError(lines, i, latest) ==
  IF i > Len(lines) THEN [latest |-> latest, threw |-> FALSE]
  ELSE IF Trim(lines[i]) = <<>>
  THEN ParseLinesResetOnError(lines, i + 1, latest)
  ELSE LET r == JSONparse(lines[i]) IN
       IF r.ok THEN ParseLinesResetOnError(lines, i + 1, r.value)
       ELSE [latest |-> EmptyObj, threw |-> TRUE]

\* ParseLines leaving the loop after the first line it has parsed
RECURSIVE ParseLinesFirstOnly(_, _, _)
ParseLinesFirstOnly(lines, i, latest) ==
  IF i > Len(lines) THEN [latest |-> latest, threw |-> FALSE]
  ELSE IF Trim(lines[i]) = <<>> THEN ParseLinesFirstOnly(lines, i + 1, latest)
  ELSE LET r == JSONparse(lines[i]) IN
       IF r.ok THEN [latest |-> r.value, threw |-> FALSE]
       ELSE [latest |-> latest, threw |-> TRUE]

\* the for loop inside the try block: an exception of JSON.parse leaves the
\* loop, the lines after it are not looked at
RECURSIVE ParseLines(_, _, _)
ParseLines(lines, i, latest) ==
  IF i > Len(lines) THEN [latest |-> latest, threw |-> FALSE]
  ELSE IF Trim(lines[i]) = <<>> THEN ParseLines(lines, i + 1, latest)
  ELSE LET r == JSONparse(lines[i]) IN
       IF r.ok THEN ParseLines(lines, i + 1, r.value)
       ELSE [latest |-> latest, threw |-> TRUE]

\* the whole callback: the catch block logs "JSON error:" and returns
OnStdoutData(latest, data) ==
  LET r == ParseLines(Split(data), 1, latest) IN
  [latest |-> r.latest, logged |-> r.threw, uncaught |-> FALSE]

(***************************************************************************)
(* Display script: override tables                                         *)
(***************************************************************************)
\* the four groups of override controls of the page
Controls == {"Temp", "Hum", "Light", "Co2"}

\* bindOverrideControls: type.toLowerCase()
LowerOf(c) ==
  CASE c = "Temp" -> "temp" [] c = "Hum" -> "hum"
    [] c = "Light" -> "light" [] c = "Co2" -> "co2"

\* the sensor named by the click handlers of the control group
SensorOf(c) ==
  CASE c = "Temp" -> "temperature" [] c = "Hum" -> "moisture"
    [] c = "Light" -> "light" [] c = "Co2" -> "co2"

\* obj[key] = val
SetProp(obj, key, val) ==
  [k \in DOMAIN obj \cup {key} |-> IF k = key THEN val ELSE obj[k]]

\* a delete that leaves the member in place
DeletePropKept(obj, key) == obj

\* delete obj[key]
DeleteProp(obj, key) == [k \in DOMAIN obj \ {key} |-> obj[k]]

\* Object.assign(target, source)
ObjectAssign(target, source) ==
  [k \in DOMAIN target \cup DOMAIN source |->
     IF k \in DOMAIN source THEN source[k] ELSE target[k]]

\* JSON.parse(JSON.stringify(obj)) of a flat table: members that are
\* undefined are left out, NaN is written as null
JSONroundTrip(obj) ==
  [k \in {j \in DOMAIN obj : obj[j] # Undefined} |->
     IF obj[k] = NaN THEN Null ELSE obj[k]]

\* const overrides = { temperature: null, ... }
InitialOverrides ==
  [temperature |-> Null, moisture |-> Null, light |-> Null, co2 |-> Null]

\* what the operator may have typed into an override input
InputTexts == {"", "0", "9", "x"}

\* parseFloat
ParseFloat(t) ==
  IF t = "0" THEN Num(0) ELSE IF t = "9" THEN Num(9) ELSE NaN

(***************************************************************************)
(* Command relay                                                           *)
(***************************************************************************)
\* text of a value in JSON.stringify: a number by its digits, a string
\* quoted, NaN and Infinity as null
NumberText(v) ==
  IF v.k = "number" THEN ToString(v.n)
  ELSE IF v.k = "string" THEN "\"text\""
  ELSE "null"

\* JSON.stringify({ type: 'override', sensor, value }) + '\n', as tokens; a
\* member whose value is undefined is left out
OverrideLine(sensor, value) ==
  <<"{", "type", "override", "sensor", sensor>>
    \o (IF value = Undefined THEN <<>> ELSE <<"value", NumberText(value)>>)
    \o <<"}", NL>>

\* JSON.stringify({ type: 'clear_override', sensor }) + '\n'
ClearLine(sensor) == <<"{", "type", "clear_override", "sensor", sensor, "}", NL>>

\* what the host writes for a message of the display script
CommandLine(msg) ==
  IF msg.channel = "override-sensor" THEN OverrideLine(msg.sensor, msg.value)
  ELSE ClearLine(msg.sensor)

\* plcAPI.sendOverride / plcAPI.clearOverride: ipcRenderer.send appends the
\* message to the channel to the host
SendIpcFirst(queue, msg) == <<msg>> \o queue

SendIpc(queue, msg) == Append(queue, msg)

OverrideMsg(sensor, value) ==
  [channel |-> "override-sensor", sensor |-> sensor, value |-> value]

ClearMsg(sensor) ==
  [channel |-> "clear-override", sensor |-> sensor, value |-> Undefined]

(***************************************************************************)
(* Display script: update()                                                *)
(***************************************************************************)
PanelBlank == [k |-> "blank", alerts |-> EmptyObj]
PanelNormal == [k |-> "normal", alerts |-> EmptyObj]
PanelList(alerts) == [k |-> "list", alerts |-> alerts]
PanelError == [k |-> "error", alerts |-> EmptyObj]

\* the page before the first update
BlankDom == [sensors |-> EmptyObj, actuators |-> EmptyObj, alerts |-> PanelBlank]

\* no object
NoData == [none |-> Null]

\* localStorage.getItem('simulatedData'): no code of the repository sets it
storedSim == Null

\* update(), lines 185-189: the sensorOverrides table written into
\* data.sensors; throws when data has no sensors and an entry is defined
StoredOverridesThrow(d, so) ==
  Get(d, "sensors") = Undefined /\ \E s \in Sensors : Get(so, s) # Undefined

\* update(), lines 185-189, left out
ApplyStoredOverridesSkipped(d, so) == d

\* update(), lines 185-189, with a test for truthiness in place of the test
\* for undefined
ApplyStoredOverridesTruthy(d, so) ==
  IF Get(d, "sensors") = Undefined THEN d
  ELSE [d EXCEPT !.sensors =
          [f \in DOMAIN d.sensors \cup
                   {g \in DOMAIN so \cap Sensors : so[g] \notin {Num(0), NaN}} |->
             IF f \in Sensors /\ Get(so, f) \notin {Undefined, Num(0), NaN}
             THEN so[f] ELSE d.sensors[f]]]

\* update(), lines 185-189, assigning the table to data.sensors
ApplyStoredOverridesReplace(d, so) ==
  IF Get(d, "sensors") = Undefined THEN d
  ELSE [d EXCEPT !.sensors =
          [f \in DOMAIN so \cap Sensors |-> so[f]]]

\* update(), lines 185-189: data.sensors.<sensor> = overrides.<sensor> where
\* the entry is not undefined
ApplyStoredOverrides(d, so) ==
  IF Get(d, "sensors") = Undefined THEN d
  ELSE [d EXCEPT !.sensors =
          [f \in DOMAIN d.sensors \cup (DOMAIN so \cap Sensors) |->
             IF f \in Sensors /\ Get(so, f) # Undefined THEN so[f]
             ELSE d.sensors[f]]]

\* updateDashboard, lines 76-79, without the test for null
ApplyMemoryOverridesAlways(sens, ov) ==
  [f \in DOMAIN sens \cup Sensors |->
     IF f \in Sensors THEN Get(ov, f) ELSE sens[f]]

\* updateDashboard, lines 76-79: s.<sensor> = overrides.<sensor> where the
\* entry is not null
ApplyMemoryOverrides(sens, ov) ==
  [f \in DOMAIN sens \cup {g \in Sensors : Get(ov, g) # Null} |->
     IF f \in Sensors /\ Get(ov, f) # Null THEN Get(ov, f) ELSE sens[f]]

\* the fields of s that updateDashboard writes into the page
ShownSensors(sens) ==
  [f \in Sensors \cup {"timestamp"} |-> Get(sens, f)]

\* update() from the reply of getSensorData on: the object after the call
\* and the page after the call.  The catch block writes "Error: ..." into
\* the alerts panel; what was written before the exception stays.
Render(d, so, ov, page) ==
  IF StoredOverridesThrow(d, so)
  THEN [data |-> d, dom |-> [page EXCEPT !.alerts = PanelError]]
  ELSE LET d1 == ApplyStoredOverrides(d, so) IN
       IF Get(d1, "sensors") = Undefined
       THEN [data |-> d1, dom |-> [page EXCEPT !.alerts = PanelError]]
       ELSE LET s2 == ApplyMemoryOverrides(d1.sensors, ov)
                d2 == [d1 EXCEPT !.sensors = s2]
            IN  IF Get(d2, "actuators") = Undefined
                THEN [data |-> d2,
                      dom |-> [page EXCEPT !.sensors = ShownSensors(s2),
                                           !.alerts = PanelError]]
                ELSE [data |-> d2,
                      dom |-> [sensors |-> ShownSensors(s2),
                               actuators |-> d2.actuators,
                               alerts |->
                                 IF Get(d2, "alerts") = Undefined
                                      \/ DOMAIN d2.alerts = {}
                                 THEN PanelNormal
                                 ELSE PanelList(d2.alerts)]]

(***************************************************************************)
(* State                                                                   *)
(***************************************************************************)
VARIABLES
  latestData,      \* host: let latestData = {}
  lastData,        \* the text handed to the last 'data' callback
  prevLatest,      \* latestData when the last 'data' callback started
  prevTail,        \* unterminated end of the text of the callback before
  jsonErrLogged,   \* the last 'data' callback ran console.error("JSON error:")
  mainThrew,       \* an exception escaped a callback of the host process
  ipcQueue,        \* messages of ipcRenderer.send not yet handled by the host
  stdin,           \* writes to py.stdin the collector has not read yet
  requested,       \* sendOverride / clearOverride calls not yet read by it
  overrides,       \* display script: const overrides
  lsOverrides,     \* localStorage item 'overrides', parsed
  sensorOverrides, \* localStorage item 'sensorOverrides', parsed
  status,          \* text of the <type>OverrideStatus elements
  focus,           \* the control group the operator works with
  lastOp,          \* the operator's last click, whether a delivery was
                   \* handled after it (kept for an accepted apply), and
                   \* whether update() ran since the click and the last
                   \* delivery
  pc,              \* update(): "idle", "invoked" (awaiting the reply), "replied"
  data,            \* update(): let data, once the reply is there
  dom,             \* what updateDashboard has written into the page
  pyState,         \* the spawned collector: "running", "killed" (py.kill()
                   \* has signalled it), "terminated" (gone after the
                   \* signal), "exited" (gone on its own)
  hostState,       \* the Electron host process: "running" or "exited"
  windowOpen,      \* the BrowserWindow of createWindow exists
  platform,        \* process.platform
  hostLog,         \* what the host has written with console.error, apart
                   \* from "JSON error:"
  writeFailed      \* a py.stdin.write found the collector's input closed

storeVars == <<latestData, lastData, prevLatest, prevTail, jsonErrLogged,
               mainThrew>>
relayVars == <<ipcQueue, stdin, requested>>
tableVars == <<overrides, lsOverrides, sensorOverrides, status, focus, lastOp>>
updateVars == <<pc, data, dom>>
lifeVars == <<pyState, hostState, windowOpen, platform, hostLog, writeFailed>>

vars == <<storeVars, relayVars, tableVars, updateVars, lifeVars>>

(***************************************************************************)
(* Producer output                                                         *)
(***************************************************************************)
\* lines on the collector's stdout: snapshots, an object without actuators
\* and alerts, a bare number, text that is no JSON, a blank line
ProducerLines ==
  {LineOf(m) : m \in MemberLists} \cup {<<"7">>, <<"a">>, <<" ">>}

\* the lines of well-formed snapshots
SnapshotLines == {LineOf("a"), LineOf("b")}

\* texts of at most n newline-terminated lines
RECURSIVE Streams(_, _)
Streams(lines, n) ==
  IF n = 0 THEN {<<>>}
  ELSE LET S == Streams(lines, n - 1) IN
       S \cup {s \o l \o <<NL>> : s \in S, l \in lines}

Pieces(s) == {SubSeq(s, i, j) : i \in 1..Len(s), j \in 1..Len(s)} \ {<<>>}

\* one read of the pipe that ends at a line boundary: some whole lines
WholeLineData == Streams(ProducerLines, MaxLines) \ {<<>>}

\* one read of the pipe that does not respect line boundaries: any piece of
\* a snapshot line and its terminator
SplitData == UNION {Pieces(l \o <<NL>>) : l \in SnapshotLines}

DataChunks == WholeLineData \cup SplitData

\* the part of a text after its last line terminator
Tail0(s) == LET ls == Split(s) IN ls[Len(ls)]

(***************************************************************************)
(* Host process actions                                                    *)
(***************************************************************************)
\* py.stdout.on('data', ...)
StdoutData(d) ==
  LET r == OnStdoutData(latestData, d) IN
  /\ hostState = "running"
  /\ pyState \in {"running", "killed"}
  /\ latestData' = r.latest
  /\ jsonErrLogged' = r.logged
  /\ mainThrew' = (mainThrew \/ r.uncaught)
  /\ lastData' = d
  /\ prevLatest' = latestData
  /\ prevTail' = Tail0(lastData)
  /\ lastOp' = [lastOp EXCEPT !.ingested = (lastOp.op = "apply"),
                              !.rendered = FALSE]
  /\ UNCHANGED <<relayVars, overrides, lsOverrides, sensorOverrides, status,
                 focus, updateVars, lifeVars>>

\* ipcMain.handle('get-sensor-data'): the reply is a copy of latestData
GetSensorDataStale == prevLatest

GetSensorData == latestData

HandleGetSensorData ==
  /\ hostState = "running"
  /\ pc = "invoked"
  /\ pc' = "replied"
  /\ data' = GetSensorData
  /\ UNCHANGED <<storeVars, relayVars, tableVars, dom, lifeVars>>

\* the listeners the host registers on the child process and its streams
\* (lines 44 and 55): none for 'exit' or 'close' of py, none for 'error' of
\* py.stdin
ChildListeners == {"stdout.data", "stderr.data"}

\* ipcMain.on('override-sensor') and ipcMain.on('clear-override'): py is the
\* handle of the spawned collector and stays truthy after its exit; one
\* write per message.  A write to the input of a collector that is gone
\* fails: either the stream is already destroyed and the text is dropped, or
\* the stream emits 'error' (EPIPE), which without a listener is an uncaught
\* exception of the host.
HandleCommand ==
  /\ hostState = "running"
  /\ ipcQueue # <<>>
  /\ ipcQueue' = Tail(ipcQueue)
  /\ IF pyState \in {"running", "killed"}
     THEN /\ stdin' = Append(stdin, CommandLine(Head(ipcQueue)))
          /\ UNCHANGED <<mainThrew, hostLog, writeFailed>>
     ELSE /\ stdin' = stdin
          /\ writeFailed' = TRUE
          /\ \E emitsError \in BOOLEAN :
               IF emitsError /\ "stdin.error" \in ChildListeners
               THEN hostLog' = hostLog \cup {"write"} /\ mainThrew' = mainThrew
               ELSE hostLog' = hostLog /\ mainThrew' = (mainThrew \/ emitsError)
  /\ UNCHANGED <<latestData, lastData, prevLatest, prevTail, jsonErrLogged,
                 requested, tableVars, updateVars, pyState, hostState,
                 windowOpen, platform>>

\* the collector reads one command line from its standard input
CollectorReads ==
  /\ pyState = "running"
  /\ stdin # <<>>
  /\ stdin' = Tail(stdin)
  /\ requested' = Tail(requested)
  /\ UNCHANGED <<storeVars, ipcQueue, tableVars, updateVars, lifeVars>>

(***************************************************************************)
(* Display script actions                                                  *)
(***************************************************************************)
StatusBlank == [text |-> "", value |-> Undefined, unit |-> FALSE]
StatusSet(v, unit) == [text |-> "Override set to", value |-> v, unit |-> unit]
StatusNone == [text |-> "No override set.", value |-> Undefined, unit |-> FALSE]

NoOp == [op |-> "none", value |-> Undefined, ingested |-> FALSE,
         rendered |-> FALSE]

\* click on apply<c>OverrideBtn with text t in <c>OverrideInput: first the
\* listener of bindOverrideControls (applyOverride), then the listener of
\* lines 201-279
ClickApply(c, t) ==
  LET val == ParseFloat(t)
      ov1 == IF t # "" THEN SetProp(overrides, LowerOf(c), val) ELSE overrides
      sends == val # NaN
  IN
  /\ windowOpen
  /\ c = focus
  /\ sends => Len(requested) < MaxPending
  /\ overrides' = ov1
  /\ lsOverrides' = (IF t # "" THEN JSONroundTrip(ov1) ELSE lsOverrides)
  /\ sensorOverrides' =
       (IF sends THEN SetProp(sensorOverrides, SensorOf(c), val)
        ELSE sensorOverrides)
  /\ status' = [status EXCEPT ![c] =
                  IF sends THEN StatusSet(val, TRUE)
                  ELSE IF t # "" THEN StatusSet(val, FALSE) ELSE @]
  /\ ipcQueue' =
       (IF sends THEN SendIpc(ipcQueue, OverrideMsg(SensorOf(c), val))
        ELSE ipcQueue)
  /\ requested' =
       (IF sends THEN Append(requested, OverrideMsg(SensorOf(c), val))
        ELSE requested)
  /\ lastOp' = [op |-> IF sends THEN "apply" ELSE "rejected",
                value |-> val, ingested |-> FALSE, rendered |-> FALSE]
  /\ UNCHANGED <<storeVars, stdin, focus, updateVars, lifeVars>>

\* click on reset<c>OverrideBtn: resetOverride, then the listener of lines
\* 214-279
ClickReset(c) ==
  LET ov1 == SetProp(overrides, LowerOf(c), Null) IN
  /\ windowOpen
  /\ c = focus
  /\ Len(requested) < MaxPending
  /\ overrides' = ov1
  /\ lsOverrides' = JSONroundTrip(ov1)
  /\ sensorOverrides' = DeleteProp(sensorOverrides, SensorOf(c))
  /\ status' = [status EXCEPT ![c] = StatusNone]
  /\ ipcQueue' = SendIpc(ipcQueue, ClearMsg(SensorOf(c)))
  /\ requested' = Append(requested, ClearMsg(SensorOf(c)))
  /\ lastOp' = [op |-> "reset", value |-> Undefined, ingested |-> FALSE,
                rendered |-> FALSE]
  /\ UNCHANGED <<storeVars, stdin, focus, updateVars, lifeVars>>

\* update() up to the await: no simulatedData item, getSensorData is invoked
UpdateStart ==
  /\ windowOpen
  /\ pc = "idle"
  /\ storedSim = Null
  /\ pc' = "invoked"
  /\ UNCHANGED <<storeVars, relayVars, tableVars, data, dom, lifeVars>>

\* update() from the reply on: both override tables, then the page
UpdateRender ==
  /\ windowOpen
  /\ pc = "replied"
  /\ pc' = "idle"
  /\ data' = NoData
  /\ dom' = Render(data, sensorOverrides, overrides, dom).dom
  /\ lastOp' = [lastOp EXCEPT !.rendered = TRUE]
  /\ UNCHANGED <<storeVars, relayVars, overrides, lsOverrides,
                 sensorOverrides, status, focus, lifeVars>>

\* the page is loaded again: the script starts over with what localStorage
\* holds (lines 24-45), a pending update() is gone with the old page
Reload ==
  /\ windowOpen
  /\ overrides' = ObjectAssign(InitialOverrides, lsOverrides)
  /\ status' = [c \in Controls |-> StatusBlank]
  /\ pc' = "idle"
  /\ data' = NoData
  /\ dom' = BlankDom
  /\ UNCHANGED <<storeVars, relayVars, lsOverrides, sensorOverrides, focus,
                 lastOp, lifeVars>>

(***************************************************************************)
(* The interface exposed to the page                                       *)
(***************************************************************************)
\* Number.POSITIVE_INFINITY
Infinity == [k |-> "infinity", n |-> 0]

\* arguments a script of the page can pass to plcAPI: the sensors and some
\* other name; a number, no number, a string, nothing
ApiSensors == Sensors \cup {"pressure"}
ApiValues == {Num(9), NaN, Infinity, Str(1), Undefined}

\* plcAPI.sendOverride(sensor, value)
sendOverride(sensor, value) ==
  /\ windowOpen
  /\ Len(requested) < MaxPending
  /\ ipcQueue' = SendIpc(ipcQueue, OverrideMsg(sensor, value))
  /\ requested' = Append(requested, OverrideMsg(sensor, value))
  /\ UNCHANGED <<storeVars, stdin, tableVars, updateVars, lifeVars>>

\* plcAPI.clearOverride(sensor)
clearOverride(sensor) ==
  /\ windowOpen
  /\ Len(requested) < MaxPending
  /\ ipcQueue' = SendIpc(ipcQueue, ClearMsg(sensor))
  /\ requested' = Append(requested, ClearMsg(sensor))
  /\ UNCHANGED <<storeVars, stdin, tableVars, updateVars, lifeVars>>

(***************************************************************************)
(* Life cycle of the host and of the collector                             *)
(***************************************************************************)
\* the collector ends on its own; what it may have printed on stderr before
\* is logged by the 'data' listener of py.stderr ("PY ERROR:")
ProducerExits(printsError) ==
  /\ pyState = "running"
  /\ pyState' = "exited"
  /\ hostLog' =
       IF hostState # "running" THEN hostLog
       ELSE hostLog \cup (IF printsError THEN {"PY ERROR"} ELSE {})
                    \cup (IF "exit" \in ChildListeners THEN {"exit"} ELSE {})
  /\ UNCHANGED <<storeVars, relayVars, tableVars, updateVars, hostState,
                 windowOpen, platform, writeFailed>>

\* the collector ends on the signal of py.kill()
ProducerDies ==
  /\ pyState = "killed"
  /\ pyState' = "terminated"
  /\ UNCHANGED <<storeVars, relayVars, tableVars, updateVars, hostState,
                 windowOpen, platform, hostLog, writeFailed>>

\* ChildProcess.kill(): the signal is sent to a child that still runs
Kill(state) == IF state = "running" THEN "killed" ELSE state

\* the last window is closed: app.on('window-all-closed') kills the
\* collector and, except on macOS, quits the application
WindowAllClosed ==
  /\ hostState = "running"
  /\ windowOpen
  /\ windowOpen' = FALSE
  /\ pyState' = Kill(pyState)
  /\ hostState' = IF platform # "darwin" THEN "exited" ELSE "running"
  /\ UNCHANGED <<storeVars, relayVars, tableVars, updateVars, platform,
                 hostLog, writeFailed>>

\* the application is quit (menu, Cmd+Q, app.quit()): Electron closes the
\* windows and emits 'will-quit'; 'window-all-closed' is not emitted
AppQuit ==
  /\ hostState = "running"
  /\ hostState' = "exited"
  /\ windowOpen' = FALSE
  /\ UNCHANGED <<storeVars, relayVars, tableVars, updateVars, pyState,
                 platform, hostLog, writeFailed>>

\* the host process crashes or is ended by a signal: no event is emitted
HostCrash ==
  /\ hostState = "running"
  /\ hostState' = "exited"
  /\ windowOpen' = FALSE
  /\ UNCHANGED <<storeVars, relayVars, tableVars, updateVars, pyState,
                 platform, hostLog, writeFailed>>

\* the application is started again: a new host process with a new
\* collector (app.whenReady), the page is loaded with what localStorage has
\* kept
HostLaunch ==
  /\ hostState = "exited"
  /\ hostState' = "running"
  /\ windowOpen' = TRUE
  /\ pyState' = "running"
  /\ latestData' = EmptyObj
  /\ lastData' = <<>>
  /\ prevLatest' = EmptyObj
  /\ prevTail' = <<>>
  /\ jsonErrLogged' = FALSE
  /\ mainThrew' = FALSE
  /\ ipcQueue' = <<>>
  /\ stdin' = <<>>
  /\ requested' = <<>>
  /\ hostLog' = {}
  /\ writeFailed' = FALSE
  /\ overrides' = ObjectAssign(InitialOverrides, lsOverrides)
  /\ status' = [c \in Controls |-> StatusBlank]
  /\ pc' = "idle"
  /\ data' = NoData
  /\ dom' = BlankDom
  /\ UNCHANGED <<lsOverrides, sensorOverrides, focus, lastOp, platform>>

(***************************************************************************)
(* Specifications                                                          *)
(***************************************************************************)
InitHost ==
  /\ latestData = EmptyObj
  /\ lastData = <<>>
  /\ prevLatest = EmptyObj
  /\ prevTail = <<>>
  /\ jsonErrLogged = FALSE
  /\ mainThrew = FALSE
  /\ ipcQueue = <<>>
  /\ stdin = <<>>
  /\ requested = <<>>
  /\ pyState = "running"
  /\ hostState = "running"
  /\ windowOpen = TRUE
  /\ hostLog = {}
  /\ writeFailed = FALSE

InitDisplay ==
  /\ overrides = ObjectAssign(InitialOverrides, EmptyObj)
  /\ lsOverrides = EmptyObj
  /\ sensorOverrides = EmptyObj
  /\ status = [c \in Controls |-> StatusBlank]
  /\ lastOp = NoOp
  /\ pc = "idle"
  /\ data = NoData
  /\ dom = BlankDom

\* the collector keeps to its interface and prints whole snapshot lines:
\* one line in one read of the pipe
LineData == Streams(SnapshotLines, 1) \ {<<>>}

\* at most MaxBatch lines in one read of the pipe
BatchData == Streams(SnapshotLines, MaxBatch) \ {<<>>}

\* host, collector and page running, the operator working with one control
\* group
Init == InitHost /\ InitDisplay /\ focus \in Controls /\ platform = "linux"

Next ==
  \/ \E d \in LineData : StdoutData(d)
  \/ HandleGetSensorData
  \/ HandleCommand
  \/ CollectorReads
  \/ \E c \in Controls, t \in InputTexts : ClickApply(c, t)
  \/ \E c \in Controls : ClickReset(c)
  \/ UpdateStart
  \/ UpdateRender
  \/ Reload

Spec == Init /\ [][Next]_vars

\* the store and its reader: batches of snapshot lines and update(), the
\* operator staying away from the override controls
InitStore == InitHost /\ InitDisplay /\ focus = "Temp" /\ platform = "linux"

NextRead ==
  \/ \E d \in BatchData : StdoutData(d)
  \/ UpdateStart
  \/ HandleGetSensorData
  \/ UpdateRender

SpecRead == InitStore /\ [][NextRead]_vars

\* the stream handler alone, under any framing and any line
NextStore == \E d \in DataChunks : StdoutData(d)

SpecStore == InitStore /\ [][NextStore]_vars

\* the life cycle: the collector printing lines and ending, the page
\* polling, the window closed, the application quit or crashing
InitLife ==
  InitHost /\ InitDisplay /\ focus = "Temp" /\ platform \in {"linux", "darwin"}

NextLife ==
  \/ \E d \in LineData : StdoutData(d)
  \/ UpdateStart
  \/ HandleGetSensorData
  \/ UpdateRender
  \/ \E e \in BOOLEAN : ProducerExits(e)
  \/ ProducerDies
  \/ WindowAllClosed
  \/ AppQuit
  \/ HostCrash

SpecLife == InitLife /\ [][NextLife]_vars

\* the operator's requests over the life of host and collector: clicks, the
\* relay, the collector ending, the application quit and started again.  The
\* collector leaves its input unread, so that stdin holds every line
\* written to the collector that runs
NextOps ==
  \/ \E c \in Controls, t \in InputTexts : ClickApply(c, t)
  \/ \E c \in Controls : ClickReset(c)
  \/ HandleCommand
  \/ Reload
  \/ \E e \in BOOLEAN : ProducerExits(e)
  \/ AppQuit
  \/ HostLaunch

SpecOps == Init /\ [][NextOps]_vars

\* the relay under any call of the exposed interface
NextApi ==
  \/ \E sensor \in ApiSensors, value \in ApiValues : sendOverride(sensor, value)
  \/ \E sensor \in ApiSensors : clearOverride(sensor)
  \/ HandleCommand
  \/ CollectorReads

SpecApi == InitStore /\ [][NextApi]_vars

(***************************************************************************)
(* Properties of the stream handler                                        *)
(***************************************************************************)
\* the newline-terminated lines of a text that ends at a line boundary
WholeLines(d) == LET ls == Split(d) IN SubSeq(ls, 1, Len(ls) - 1)

EndsAtLineBoundary(d) == d # <<>> /\ d[Len(d)] = NL

\* the value of the last line that parses, or dflt when none does
RECURSIVE LastParsed(_, _)
LastParsed(ls, dflt) ==
  IF ls = <<>> THEN dflt
  ELSE IF JSONparse(ls[Len(ls)]).ok THEN JSONparse(ls[Len(ls)]).value
  ELSE LastParsed(SubSeq(ls, 1, Len(ls) - 1), dflt)

NoLineParses(d) == \A i \in 1..Len(Split(d)) : ~JSONparse(Split(d)[i]).ok

HasNonBlankLine(d) == \E i \in 1..Len(Split(d)) : Trim(Split(d)[i]) # <<>>

\* C3: a delivery none of whose lines is well-formed JSON leaves latestData
\* as it was before the delivery; the error of a non-blank line is logged by
\* the catch block and no exception leaves the callback.
C3_MalformedKeepsSnapshot ==
  (lastData # <<>> /\ NoLineParses(lastData)) =>
    /\ latestData = prevLatest
    /\ HasNonBlankLine(lastData) => jsonErrLogged
    /\ ~mainThrew

C3_Witness ==
  /\ lastData = <<"a", NL>>
  /\ prevLatest = Members("b")
  /\ latestData = Members("b")
  /\ jsonErrLogged

\* C4: a line that is valid JSON without the Snapshot shape is discarded and
\* reported, so the stored value is the initial one or a full Snapshot.
C4_ShapelessLineDiscarded ==
  /\ \A l \in ProducerLines :
       (lastData = l \o <<NL>> /\ JSONparse(l).ok
          /\ ~IsSnapshot(JSONparse(l).value)) =>
         (latestData = prevLatest /\ jsonErrLogged)
  /\ latestData = EmptyObj \/ IsSnapshot(latestData)

\* C5: after a delivery of several newline-terminated lines the stored value
\* is that of the last line of the delivery that parses, or the previous one
\* when no line parses.
C5_LastParsedLineWins ==
  (EndsAtLineBoundary(lastData) /\ Len(WholeLines(lastData)) >= 2) =>
    latestData = LastParsed(WholeLines(lastData), prevLatest)

\* C6: one delivery of two newline-terminated JSON objects leaves latestData
\* as two deliveries of one object each, in the same order, leave it.
C6_BatchEqualsSeparate ==
  \A l1, l2 \in ProducerLines :
    (/\ lastData = l1 \o <<NL>> \o l2 \o <<NL>>
     /\ JSONparse(l1).ok /\ JSONparse(l2).ok
     /\ JSONparse(l1).value # JNum /\ JSONparse(l2).value # JNum) =>
      latestData =
        OnStdoutData(OnStdoutData(prevLatest, l1 \o <<NL>>).latest,
                     l2 \o <<NL>>).latest

C6_Witness ==
  /\ lastData = LineOf("a") \o <<NL>> \o LineOf("b") \o <<NL>>
  /\ prevLatest = Members("p")
  /\ latestData = Members("b")

\* C7: a snapshot line that arrives split over two consecutive deliveries is
\* ingested as one line when its terminator arrives and is then the stored
\* value.
C7_SplitLineIngested ==
  \A m \in {"a", "b"} :
    (/\ prevTail # <<>> /\ lastData # <<>>
     /\ prevTail \o lastData = LineOf(m) \o <<NL>>) =>
      latestData = Members(m)

(***************************************************************************)
(* Properties of the store and its reader                                  *)
(***************************************************************************)
\* the last two lines ingested were the snapshots m1 and m2, in one delivery
\* or in two
IngestedInOrder(m1, m2) ==
  \/ lastData = LineOf(m1) \o <<NL>> \o LineOf(m2) \o <<NL>>
  \/ lastData = LineOf(m2) \o <<NL>> /\ prevLatest = Members(m1)

\* C1: when the snapshot lines S1 and S2 have been ingested in that order,
\* in one delivery or in two, the 'get-sensor-data' handler replies with
\* exactly S2.
C1_LastWriteWins ==
  [][\A m1, m2 \in {"a", "b"} :
       (IngestedInOrder(m1, m2) /\ pc = "invoked" /\ pc' = "replied") =>
         data' = Members(m2)]_vars

C1_Witness ==
  /\ lastData = LineOf("a") \o <<NL>> \o LineOf("b") \o <<NL>>
  /\ prevLatest = EmptyObj
  /\ pc = "replied"
  /\ data = Members("b")

\* the default snapshot of the contract: sensors present, no actuators, no
\* alerts
IsDefaultSnapshot(v) ==
  /\ IsSnapshot(v)
  /\ Sensors \subseteq DOMAIN v.sensors
  /\ v.actuators = EmptyObj
  /\ v.alerts = EmptyObj

\* C2: before any line has been ingested a read returns the default
\* snapshot, and a display update does not end in its error branch.
C2_DefaultBeforeFirstLine ==
  lastData = <<>> =>
    /\ pc = "replied" => IsDefaultSnapshot(data)
    /\ dom.alerts # PanelError

(***************************************************************************)
(* Properties of the overrides                                             *)
(***************************************************************************)
\* C8: for the sensor of every control group and every snapshot fetched, a
\* display update after the operator has applied the override v shows v for
\* the sensor, and a display update after the operator has reset the
\* override shows the reading of the snapshot.
C8_OverrideShownUntilReset ==
  [][(UpdateRender /\ IsSnapshot(data)) =>
       LET s == SensorOf(focus) IN
       /\ lastOp.op = "apply" => dom'.sensors[s] = lastOp.value
       /\ lastOp.op = "reset" => dom'.sensors[s] = data.sensors[s]]_vars

C8_Witness ==
  LET s == SensorOf(focus) IN
  /\ requested = <<OverrideMsg(s, Num(9)), ClearMsg(s)>>
  /\ lastOp.op = "reset" /\ lastOp.rendered
  /\ IsSnapshot(latestData)
  /\ dom.sensors = ShownSensors(latestData.sensors)

Overridden(f) ==
  f \in Sensors /\ (Get(sensorOverrides, f) # Undefined \/ Get(overrides, f) # Null)

ParseCommand(t) ==
  IF /\ Len(t) = 8 /\ t[1] = "{" /\ t[2] = "type" /\ t[3] = "override"
     /\ t[4] = "sensor" /\ t[6] = "value" /\ t[8] = "}"
  THEN [ok |-> TRUE, channel |-> "override-sensor", sensor |-> t[5],
        value |-> t[7]]
  ELSE IF /\ Len(t) = 6 /\ t[1] = "{" /\ t[2] = "type"
          /\ t[3] = "clear_override" /\ t[4] = "sensor" /\ t[6] = "}"
  THEN [ok |-> TRUE, channel |-> "clear-override", sensor |-> t[5],
        value |-> ""]
  ELSE [ok |-> FALSE, channel |-> "", sensor |-> "", value |-> ""]

\* the write w is the one complete line of the request req
IsLineOf(w, req) ==
  /\ Len(w) >= 2
  /\ w[Len(w)] = NL
  /\ \A i \in 1..(Len(w) - 1) : w[i] # NL
  /\ LET c == ParseCommand(SubSeq(w, 1, Len(w) - 1)) IN
     /\ c.ok
     /\ c.channel = req.channel
     /\ c.sensor = req.sensor
     /\ req.channel = "override-sensor" => c.value = ToString(req.value.n)

\* C10: the collector's input receives one line for every request of the
\* display script, in the order of the requests, each write being one
\* complete JSON line of its request.
C10_CommandsInOrder ==
  /\ Len(stdin) + Len(ipcQueue) = Len(requested)
  /\ \A i \in 1..Len(stdin) : IsLineOf(stdin[i], requested[i])
  /\ \A j \in 1..Len(ipcQueue) : ipcQueue[j] = requested[Len(stdin) + j]

C10_Witness ==
  /\ stdin = <<OverrideLine("co2", Num(9)), ClearLine("co2")>>
  /\ ipcQueue = <<>>
  /\ requested = <<OverrideMsg("co2", Num(9)), ClearMsg("co2")>>

(***************************************************************************)
(* Properties of the life cycle                                            *)
(***************************************************************************)
\* C11: when an override or clear request is relayed while the collector is
\* gone, so that the write finds its input closed, the failure is logged by
\* the host and raises no uncaught exception in it.
C11_WriteFailureContained ==
  writeFailed => ("write" \in hostLog /\ ~mainThrew)

\* C12: whenever the host process has ended, on whatever path, the
\* collector it spawned is not running any more (a collector that py.kill()
\* has signalled counts as ended).
C12_NoOrphanedProducer ==
  hostState = "exited" => pyState # "running"

\* C13: once the collector has ended on its own, the host has logged the
\* exit, the store still holds what the last delivery before the exit left
\* in it, and the collector is not started again.
C13_ExitLoggedStoreKept ==
  (hostState = "running" /\ pyState = "exited") =>
    /\ "exit" \in hostLog
    /\ latestData = OnStdoutData(prevLatest, lastData).latest

(***************************************************************************)
(* Further properties of the overrides                                     *)
(***************************************************************************)
\* C14: handling a delivery of the collector (the one step that changes the
\* store) leaves the override tables as they are, and a display update that follows an applied override v and
\* any deliveries handled after it still shows v for the sensor.
C14_OverrideSurvivesIngestion ==
  [][LET s == SensorOf(focus) IN
     /\ (storeVars' # storeVars) =>
          /\ sensorOverrides' = sensorOverrides
          /\ overrides' = overrides
          /\ lsOverrides' = lsOverrides
     /\ (UpdateRender /\ IsSnapshot(data) /\ lastOp.op = "apply"
           /\ lastOp.ingested) =>
          /\ dom'.sensors[s] = lastOp.value
          /\ sensorOverrides'[s] = lastOp.value]_vars

C14_Witness ==
  LET s == SensorOf(focus) IN
  /\ lastOp.op = "apply" /\ lastOp.value = Num(9)
  /\ lastOp.ingested /\ lastOp.rendered
  /\ IsSnapshot(prevLatest) /\ IsSnapshot(latestData)
  /\ prevLatest # latestData
  /\ dom.sensors["timestamp"] = latestData.sensors["timestamp"]
  /\ dom.sensors[s] = Num(9)
  /\ latestData.sensors[s] # Num(9)

\* the override values that the display script's stores hold for sensor s:
\* the in-memory table, its persisted copy and the 'sensorOverrides' table
ActiveOverrides(s) ==
  ({Get(overrides, s)} \ {Null, Undefined})
    \cup ({Get(lsOverrides, s)} \ {Null, Undefined})
    \cup ({Get(sensorOverrides, s)} \ {Undefined})

C16_ZeroIsAnOverride ==
  [][LET s == SensorOf(focus) IN
     /\ ClickApply(focus, "0") =>
          /\ lastOp'.op = "apply"
          /\ sensorOverrides'[s] = Num(0)
          /\ ipcQueue' = Append(ipcQueue, OverrideMsg(s, Num(0)))
     /\ (ipcQueue # <<>> /\ Head(ipcQueue) = OverrideMsg(s, Num(0))
           /\ HandleCommand) =>
          stdin'[Len(stdin')] =
            <<"{", "type", "override", "sensor", s, "value", "0", "}", NL>>
     /\ (UpdateRender /\ IsSnapshot(data) /\ lastOp.op = "apply"
           /\ lastOp.value = Num(0)) =>
          dom'.sensors[s] = Num(0)
     /\ (Len(ipcQueue') > Len(ipcQueue)
           /\ ipcQueue'[Len(ipcQueue')].channel = "clear-override") =>
          ClickReset(focus)]_vars

C16_Witness ==
  LET s == SensorOf(focus) IN
  /\ lastOp.op = "apply" /\ lastOp.value = Num(0) /\ lastOp.rendered
  /\ stdin # <<>> /\ stdin[Len(stdin)] = OverrideLine(s, Num(0))
  /\ ipcQueue = <<>>
  /\ IsSnapshot(latestData) /\ latestData.sensors[s] # Num(0)
  /\ dom.sensors[s] = Num(0)
  /\ dom.sensors["timestamp"] = latestData.sensors["timestamp"]

\* C17: for every fetched snapshot and every state of the override tables,
\* the object update() ends with and the page it writes have the actuators,
\* the alerts and the timestamp of the fetched snapshot.
C17_OverridesTouchReadingsOnly ==
  (pc = "replied" /\ IsSnapshot(data)) =>
    LET r == Render(data, sensorOverrides, overrides, dom) IN
    /\ r.data.actuators = data.actuators
    /\ r.data.alerts = data.alerts
    /\ Get(r.data.sensors, "timestamp") = data.sensors["timestamp"]
    /\ r.dom.actuators = data.actuators
    /\ r.dom.alerts = (IF DOMAIN data.alerts = {} THEN PanelNormal
                       ELSE PanelList(data.alerts))
    /\ Get(r.dom.sensors, "timestamp") = data.sensors["timestamp"]

\* the page after an update under an override of the temperature, with the
\* stored alert on the raw temperature still listed
C17_Witness ==
  /\ focus = "Temp"
  /\ lastOp.op = "apply" /\ lastOp.rendered
  /\ latestData = Members("b")
  /\ dom.sensors["temperature"] = Num(9)
  /\ dom.sensors["timestamp"] = latestData.sensors["timestamp"]
  /\ dom.actuators = latestData.actuators
  /\ dom.alerts = PanelList(latestData.alerts)

(***************************************************************************)
(* Further properties of the store and of the relay                        *)
(***************************************************************************)
\* C18: under every interleaving of deliveries and reads, the reply of the
\* 'get-sensor-data' handler is the initial value when nothing was
\* delivered, and otherwise the whole value of the last line of the last
\* delivery: never a line of that delivery before its last, never a mixture.
C18_ReadsSeeLastWholeLine ==
  [][(pc = "invoked" /\ pc' = "replied") =>
       LET ls == WholeLines(lastData) IN
       /\ data' \in {EmptyObj} \cup {JSONparse(l).value : l \in SnapshotLines}
       /\ lastData = <<>> => data' = EmptyObj
       /\ lastData # <<>> => data' = JSONparse(ls[Len(ls)]).value
       /\ \A i \in 1..(Len(ls) - 1) :
            ls[i] # ls[Len(ls)] => data' # JSONparse(ls[i]).value]_vars

C18_Witness ==
  /\ lastData = LineOf("b") \o <<NL>> \o LineOf("a") \o <<NL>>
  /\ prevLatest = Members("b")
  /\ pc = "replied"
  /\ data = Members("a")

\* the text of a JSON number
IsNumberText(t) == t \in {ToString(n) : n \in 0..9}

\* C19: every line written to the collector's input, whatever call of
\* plcAPI.sendOverride or plcAPI.clearOverride it comes from, is an
\* 'override' or 'clear_override' line whose sensor is one of temperature,
\* moisture, light, co2, and an 'override' line carries a numeric value.
C19_RelayLinesWellFormed ==
  \A i \in 1..Len(stdin) :
    LET w == stdin[i]
        c == ParseCommand(SubSeq(w, 1, Len(w) - 1))
    IN  /\ c.ok
        /\ c.sensor \in Sensors
        /\ c.channel = "override-sensor" => IsNumberText(c.value)

\* the last line for sensor s among the lines written to the input of the
\* collector that runs, or no line
RECURSIVE LastCommandFor(_, _)
LastCommandFor(lines, s) ==
  IF lines = <<>> THEN [ok |-> FALSE, channel |-> "", sensor |-> s, value |-> ""]
  ELSE LET w == lines[Len(lines)]
           c == ParseCommand(SubSeq(w, 1, Len(w) - 1))
       IN  IF c.ok /\ c.sensor = s THEN c
           ELSE LastCommandFor(SubSeq(lines, 1, Len(lines) - 1), s)

\* C20: whenever host and collector run and the host has handled every
\* message of the page, a sensor has an entry v in the persisted
\* sensorOverrides table exactly when the last line written for it to the
\* running collector is an 'override' line with the value v; without an
\* entry there is no line for it or the last one is 'clear_override'.
C20_TableAgreesWithCollector ==
  (hostState = "running" /\ pyState = "running" /\ ipcQueue = <<>>) =>
    \A s \in Sensors :
      LET c == LastCommandFor(stdin, s)
          v == Get(sensorOverrides, s)
      IN  IF v # Undefined
          THEN c.ok /\ c.channel = "override-sensor" /\ c.value = NumberText(v)
          ELSE ~c.ok \/ c.channel = "clear-override"

====
